---- MODULE Spec2Model ----
(***************************************************************************)
(* A model of the CapstoneTSU video/sensor tooling:                        *)
(*   - combine_three_videos.py        create_three_video_composite         *)
(*   - create_side_by_side_video_offset.py   create_side_by_side_video     *)
(*   - main.py    synchronize_timestamps, get_accel_at_time,               *)
(*                create_annotated_video, create_side_by_side_video        *)
(*   - animate_sensor_data.py, animate_single_axis_data.py                 *)
(*                num_frames and update                                    *)
(*                                                                         *)
(* Numbers that are floats in the source are exact rationals here.  A      *)
(* rational is a pair <<numerator, denominator>> with denominator > 0.     *)
(* A decoded frame is a record [src, w, h]: the index of the frame in its  *)
(* source stream and its pixel dimensions.                                 *)
(***************************************************************************)
EXTENDS Integers, Sequences, FiniteSets, TLC

VARIABLES
    prog,           \* which script or function runs
    pc,             \* "init" | "synced" | "loop" | "done" | "aborted" | "raised"
    frame_count,    \* [reader -> number of frames in that reader's source]
    fps_raw,        \* [reader -> what cap.get(CAP_PROP_FPS) reports]
    start_offset,   \* [reader -> start offset in seconds, a rational]
    pos,            \* [reader -> index of the next frame the decoder yields]
    reads,          \* [reader -> number of cap.read() calls so far]
    cap_state,      \* [reader -> "closed" | "open" | "released"]
    writer,         \* the VideoWriter: [state, fps, w, h]
    frames,         \* the frames decoded by the latest complete round of reads
    out,            \* sequence of the frames handed to out.write
    target_height,  \* reference height of the three-stream compositor
    printed,        \* sequence of the messages printed
    raised,         \* the exception that ended the run, "none" if none
    df,             \* the sensor table: [column name -> sequence]
    manual_offset,  \* MANUAL_OFFSET_SECONDS
    frame_index,    \* create_annotated_video's frame counter
    target_time,    \* the query time of a stand-alone nearest-sample query
    row,            \* what the stand-alone query returned
    heap,           \* [object id -> table]: the DataFrame objects that exist
    ret,            \* the object ids synchronize_timestamps returned, in call order
    props,          \* [reader -> <<CAP_PROP_FRAME_WIDTH, CAP_PROP_FRAME_HEIGHT>>]
    is_datetime,    \* whether the animation script's Timestamp column parsed as datetime
    time_data,      \* the animation script's time_data array
    num_frames,     \* the animation script's num_frames
    shown,          \* the t of every update(frame_idx) call so far, in call order
    pc2,            \* position of the two-stream script in a side-by-side run of both
    out2            \* the frames that two-stream script handed to out.write

vars == <<prog, pc, frame_count, fps_raw, start_offset, pos, reads, cap_state,
          writer, frames, out, target_height, printed, raised, df, manual_offset,
          frame_index, target_time, row, heap, ret, props, is_datetime, time_data,
          num_frames, shown, pc2, out2>>

\* The variables of the table functions, of the animation scripts and of the
\* paired run, and their values in a run that does not use them.
tableVars == <<heap, ret>>
animVars == <<is_datetime, time_data, num_frames, shown>>
pairVars == <<pc2, out2>>

TableIdle == heap = <<>> /\ ret = <<>>
AnimIdle == is_datetime = FALSE /\ time_data = <<>> /\ num_frames = 0 /\ shown = <<>>
PairIdle == pc2 = "none" /\ out2 = <<>>

(***************************************************************************)
(* Bounds of the model.                                                    *)
(***************************************************************************)
MaxFrames == 2      \* frames per source stream: 0..MaxFrames
MaxLen == 3         \* samples per sensor series: 0..MaxLen
MaxTs == 2          \* sensor timestamps: 0..MaxTs seconds
MaxTick == 5        \* timestamps of an animated series: 0..MaxTick ticks
TicksPerSecond == 60    \* resolution of those timestamps: ticks in a second
MaxDim == 4         \* width, height and target height of a resized frame: 1..MaxDim

\* Frame rates a decoder may report (0: the container states none).
FpsValues == {0, 1, 2}
\* Start offsets in seconds: 0 and 7/4.
Offsets == {<<0, 1>>, <<7, 4>>}
\* <<width, height>> of a decoded frame.
FrameDims == {<<2, 2>>, <<2, 1>>, <<1, 2>>}
\* Clock offsets in seconds.
ManualOffsets == {-1, 0, 1}

(***************************************************************************)
(* Arithmetic helpers.                                                     *)
(***************************************************************************)
Abs(x) == IF x < 0 THEN -x ELSE x

RECURSIVE SeqSum(_)
SeqSum(s) == IF s = <<>> THEN 0 ELSE Head(s) + SeqSum(Tail(s))

RECURSIVE SetMin(_)
SetMin(S) ==
    LET x == CHOOSE y \in S : TRUE
    IN  IF S = {x} THEN x
        ELSE LET m == SetMin(S \ {x}) IN IF x < m THEN x ELSE m

\* Python's int() of the non-negative rational n/d: truncation.
IntTrunc(n, d) == n \div d

(***************************************************************************)
(* cv2 primitives, as the scripts use them.                                *)
(***************************************************************************)
DefaultFps == 30

NoWriter == [state |-> "none", fps |-> 0, w |-> 0, h |-> 0]

\* The frame a successful cap.read() yields at position p[k], with dimensions d.
ReadFrame(p, k, d) == [src |-> p[k], w |-> d[1], h |-> d[2]]

\* cv2.resize(frame, (new_w, new_h)).  A target size with a zero side makes
\* OpenCV raise; ResizeFails tells that case.
Cv2Resize(frame, new_w, new_h) == [src |-> frame.src, w |-> new_w, h |-> new_h]

ResizeFails(frame) == frame.w <= 0 \/ frame.h <= 0

\* cv2.hconcat raises unless all frames have the same number of rows.
HconcatFails(fs) == \E i \in DOMAIN fs : fs[i].h # fs[1].h

Hconcat(fs) ==
    [parts |-> fs,
     w |-> SeqSum([i \in DOMAIN fs |-> fs[i].w]),
     h |-> fs[1].h]

\* cap.set(CAP_PROP_POS_FRAMES, int(start_offset * fps)), guarded by
\* start_offset > 0.
SkipFrames(offset, fps) ==
    IF offset[1] > 0 THEN IntTrunc(offset[1] * fps, offset[2]) ELSE 0

\* Variant: reading stops at the first reader that has no frame.
ReadersCalledUntilFailure(n, p) ==
    {k \in 1..n : \A j \in 1..(k-1) : p[j] < frame_count[j]}

\* The readers that receive a cap.read() call in one round of reads: every
\* reader, whatever the earlier readers returned.
ReadersCalled(n, p) == 1..n

\* Variant: a decoder that does not advance (it yields the same frame again).
PosAfterReadsStuck(n, p) == p

\* pos and reads after one round of reads started at positions p.

PosAfterReads(n, p) ==
    [k \in 1..n |->
        IF k \in ReadersCalled(n, p) /\ p[k] < frame_count[k] THEN p[k] + 1 ELSE p[k]]

ReadsAfterReads(n, p) ==
    [k \in 1..n |-> IF k \in ReadersCalled(n, p) THEN reads[k] + 1 ELSE reads[k]]

\* Variant: the run goes on when any one reader produced a first frame.
FirstFramesOkAny(n, p) == \E k \in 1..n : p[k] < frame_count[k]

\* "if not (ret1 and ret2 and ret3)" after the first reads: whether every
\* reader produced a first frame.
FirstFramesOk(n, p) == \A k \in 1..n : p[k] < frame_count[k]

\* Variant: the loop goes on while any one reader still delivers.
LoopFramesOkAny(n, p) == \E k \in 1..n : p[k] < frame_count[k]

\* The same test inside the main loop (and in the overlay's loop, on ret).
LoopFramesOk(n, p) == \A k \in 1..n : p[k] < frame_count[k]

AllReleased(n) == [k \in 1..n |-> "released"]
AllOpen(n) == [k \in 1..n |-> "open"]

(***************************************************************************)
(* combine_three_videos.py                                                 *)
(***************************************************************************)
\* Variant: a negative reported rate is replaced as well.
FpsOr30NonPositive(f) == IF f <= 0 THEN DefaultFps ELSE f

\* cap.get(cv2.CAP_PROP_FPS) or 30: only a reported rate of 0 is replaced.
FpsOr30(f) == IF f = 0 THEN DefaultFps ELSE f

resize_to_height(frame, th) ==
    IF frame.h = th THEN frame
    ELSE Cv2Resize(frame, IntTrunc(frame.w * th, frame.h), th)

\* Lines 18-61: open, seek, read the first frames, open the writer and write
\* the first composite frame.
ThreeStart ==
    /\ prog = "three" /\ pc = "init"
    /\ LET fps1 == FpsOr30(fps_raw[1])
           fps2 == FpsOr30(fps_raw[2])
           fps3 == FpsOr30(fps_raw[3])
           fps  == SetMin({fps1, fps2, fps3})
           p0   == <<SkipFrames(start_offset[1], fps1),
                     SkipFrames(start_offset[2], fps2),
                     SkipFrames(start_offset[3], fps3)>>
       IN  /\ reads' = ReadsAfterReads(3, p0)
           /\ pos' = PosAfterReads(3, p0)
           /\ IF ~FirstFramesOk(3, p0)
              THEN /\ printed' = Append(printed, "error")
                   /\ cap_state' = AllReleased(3)
                   /\ pc' = "aborted"
                   /\ UNCHANGED <<writer, frames, out, target_height, raised>>
              ELSE \E d \in [1..3 -> FrameDims] :
                   LET frame1 == ReadFrame(p0, 1, d[1])
                       th     == frame1.h
                       frame2 == resize_to_height(ReadFrame(p0, 2, d[2]), th)
                       frame3 == resize_to_height(ReadFrame(p0, 3, d[3]), th)
                       resized == <<frame1, frame2, frame3>>
                   IN  /\ frames' = [k \in 1..3 |-> ReadFrame(p0, k, d[k])]
                       /\ cap_state' = AllOpen(3)
                       /\ target_height' = th
                       /\ UNCHANGED printed
                       /\ IF ResizeFails(frame2) \/ ResizeFails(frame3)
                          THEN /\ raised' = "cv2.error"
                               /\ pc' = "raised"
                               /\ UNCHANGED <<writer, out>>
                          ELSE /\ writer' = [state |-> "open", fps |-> fps,
                                             w |-> frame1.w + frame2.w + frame3.w,
                                             h |-> th]
                               /\ IF HconcatFails(resized)
                                  THEN /\ raised' = "cv2.error"
                                       /\ pc' = "raised"
                                       /\ UNCHANGED out
                                  ELSE /\ out' = Append(out, Hconcat(resized))
                                       /\ pc' = "loop"
                                       /\ UNCHANGED raised
    /\ UNCHANGED <<prog, frame_count, fps_raw, start_offset, df, manual_offset,
                   frame_index, target_time, row>>
    /\ UNCHANGED <<tableVars, props, animVars, pairVars>>

\* Lines 64-82: one iteration of the main loop; the iteration that breaks
\* goes on to release everything and print the completion message.
ThreeStep ==
    /\ prog = "three" /\ pc = "loop"
    /\ reads' = ReadsAfterReads(3, pos)
    /\ pos' = PosAfterReads(3, pos)
    /\ IF ~LoopFramesOk(3, pos)
       THEN /\ cap_state' = AllReleased(3)
            /\ writer' = [writer EXCEPT !.state = "released"]
            /\ printed' = Append(printed, "saved")
            /\ pc' = "done"
            /\ UNCHANGED <<frames, out, raised>>
       ELSE \E d \in [1..3 -> FrameDims] :
            LET frame1 == ReadFrame(pos, 1, d[1])
                frame2 == resize_to_height(ReadFrame(pos, 2, d[2]), target_height)
                frame3 == resize_to_height(ReadFrame(pos, 3, d[3]), target_height)
                resized == <<frame1, frame2, frame3>>
            IN  /\ frames' = [k \in 1..3 |-> ReadFrame(pos, k, d[k])]
                /\ UNCHANGED <<cap_state, writer, printed>>
                /\ IF ResizeFails(frame2) \/ ResizeFails(frame3) \/ HconcatFails(resized)
                   THEN /\ raised' = "cv2.error"
                        /\ pc' = "raised"
                        /\ UNCHANGED out
                   ELSE /\ out' = Append(out, Hconcat(resized))
                        /\ UNCHANGED <<pc, raised>>
    /\ UNCHANGED <<prog, frame_count, fps_raw, start_offset, target_height, df,
                   manual_offset, frame_index, target_time, row>>
    /\ UNCHANGED <<tableVars, props, animVars, pairVars>>

(***************************************************************************)
(* create_side_by_side_video_offset.py                                     *)
(***************************************************************************)
FpsPositiveOr30(f) == IF f <= 0 THEN DefaultFps ELSE f

Max(a, b) == IF a > b THEN a ELSE b

\* The inline resize of frame2 to frame1's height (lines 60-63 and 89-92).
MatchHeight(frame1, frame2) ==
    IF frame1.h # frame2.h
    THEN Cv2Resize(frame2, IntTrunc(frame2.w * frame1.h, frame2.h), frame1.h)
    ELSE frame2

\* Lines 19-75: open, seek, read the first frames, open the writer and write
\* the first combined frame.
TwoStart ==
    /\ prog = "two" /\ pc = "init"
    /\ LET fps1 == FpsPositiveOr30(fps_raw[1])
           fps2 == FpsPositiveOr30(fps_raw[2])
           fps  == SetMin({fps1, fps2})
           p0   == <<SkipFrames(start_offset[1], fps1),
                     SkipFrames(start_offset[2], fps2)>>
       IN  /\ reads' = ReadsAfterReads(2, p0)
           /\ pos' = PosAfterReads(2, p0)
           /\ IF ~FirstFramesOk(2, p0)
              THEN /\ printed' = Append(printed, "error")
                   /\ cap_state' = AllReleased(2)
                   /\ pc' = "aborted"
                   /\ UNCHANGED <<writer, frames, out, raised>>
              ELSE \E d \in [1..2 -> FrameDims] :
                   LET frame1 == ReadFrame(p0, 1, d[1])
                       frame2 == MatchHeight(frame1, ReadFrame(p0, 2, d[2]))
                       resized == <<frame1, frame2>>
                   IN  /\ frames' = [k \in 1..2 |-> ReadFrame(p0, k, d[k])]
                       /\ cap_state' = AllOpen(2)
                       /\ UNCHANGED printed
                       /\ IF ResizeFails(frame2)
                          THEN /\ raised' = "cv2.error"
                               /\ pc' = "raised"
                               /\ UNCHANGED <<writer, out>>
                          ELSE /\ writer' = [state |-> "open", fps |-> fps,
                                             w |-> frame1.w + frame2.w,
                                             h |-> Max(frame1.h, frame2.h)]
                               /\ IF HconcatFails(resized)
                                  THEN /\ raised' = "cv2.error"
                                       /\ pc' = "raised"
                                       /\ UNCHANGED out
                                  ELSE /\ out' = Append(out, Hconcat(resized))
                                       /\ pc' = "loop"
                                       /\ UNCHANGED raised
    /\ UNCHANGED <<prog, frame_count, fps_raw, start_offset, target_height, df,
                   manual_offset, frame_index, target_time, row>>
    /\ UNCHANGED <<tableVars, props, animVars, pairVars>>

\* Lines 78-101: one iteration of the main loop; the iteration that breaks
\* goes on to release everything and print the completion message.
TwoStep ==
    /\ prog = "two" /\ pc = "loop"
    /\ reads' = ReadsAfterReads(2, pos)
    /\ pos' = PosAfterReads(2, pos)
    /\ IF ~LoopFramesOk(2, pos)
       THEN /\ cap_state' = AllReleased(2)
            /\ writer' = [writer EXCEPT !.state = "released"]
            /\ printed' = Append(printed, "saved")
            /\ pc' = "done"
            /\ UNCHANGED <<frames, out, raised>>
       ELSE \E d \in [1..2 -> FrameDims] :
            LET frame1 == ReadFrame(pos, 1, d[1])
                frame2 == MatchHeight(frame1, ReadFrame(pos, 2, d[2]))
                resized == <<frame1, frame2>>
            IN  /\ frames' = [k \in 1..2 |-> ReadFrame(pos, k, d[k])]
                /\ UNCHANGED <<cap_state, writer, printed>>
                /\ IF ResizeFails(frame2) \/ HconcatFails(resized)
                   THEN /\ raised' = "cv2.error"
                        /\ pc' = "raised"
                        /\ UNCHANGED out
                   ELSE /\ out' = Append(out, Hconcat(resized))
                        /\ UNCHANGED <<pc, raised>>
    /\ UNCHANGED <<prog, frame_count, fps_raw, start_offset, target_height, df,
                   manual_offset, frame_index, target_time, row>>
    /\ UNCHANGED <<tableVars, props, animVars, pairVars>>

(***************************************************************************)
(* The compositor runs: every bounded choice of stream lengths, reported   *)
(* frame rates and start offsets, for the three-stream and the two-stream  *)
(* script.                                                                 *)
(***************************************************************************)
NoTable == [Timestamp |-> <<>>]

NStreams ==
    IF prog = "three" THEN 3 ELSE IF prog \in {"two", "main_two"} THEN 2 ELSE 1

InitComposite ==
    /\ prog \in {"three", "two"}
    /\ pc = "init"
    /\ \E n \in {2, 3} :
        /\ prog = (IF n = 3 THEN "three" ELSE "two")
        /\ frame_count \in [1..n -> 0..MaxFrames]
        /\ fps_raw \in [1..n -> FpsValues]
        /\ start_offset \in [1..n -> Offsets]
        /\ pos = [k \in 1..n |-> 0]
        /\ reads = [k \in 1..n |-> 0]
        /\ cap_state = [k \in 1..n |-> "closed"]
    /\ writer = NoWriter
    /\ frames = <<>>
    /\ out = <<>>
    /\ target_height = 0
    /\ printed = <<>>
    /\ raised = "none"
    /\ df = NoTable
    /\ manual_offset = 0
    /\ frame_index = 0
    /\ target_time = <<0, 1>>
    /\ row = "none"
    /\ TableIdle /\ props = <<>> /\ AnimIdle /\ PairIdle

NextComposite == ThreeStart \/ ThreeStep \/ TwoStart \/ TwoStep

SpecComposite == InitComposite /\ [][NextComposite]_vars

(***************************************************************************)
(* main.py: the sensor table.  df maps a column name to the sequence of    *)
(* that column's values; a row is identified by its index label, which is  *)
(* its position (1-based here, 0-based in pandas).                         *)
(***************************************************************************)
\* Variant: the offset is added to the adjusted timestamps an earlier call left.
synchronize_timestamps_accumulate(d, offset) ==
    [c \in DOMAIN d \cup {"adjusted_timestamp"} |->
        IF c = "adjusted_timestamp"
        THEN [i \in DOMAIN d.Timestamp |->
                (IF "adjusted_timestamp" \in DOMAIN d
                 THEN d.adjusted_timestamp[i] ELSE d.Timestamp[i]) + offset]
        ELSE d[c]]

\* Lines 110-130.  Adds the column adjusted_timestamp to the table it was
\* given and returns that table.
synchronize_timestamps(d, offset) ==
    [c \in DOMAIN d \cup {"adjusted_timestamp"} |->
        IF c = "adjusted_timestamp"
        THEN [i \in DOMAIN d.Timestamp |-> d.Timestamp[i] + offset]
        ELSE d[c]]

RECURSIVE SeqMin(_)
SeqMin(s) ==
    IF Len(s) = 1 THEN s[1]
    ELSE LET m == SeqMin(Tail(s)) IN IF s[1] <= m THEN s[1] ELSE m

\* Line 142: seconds since the earliest adjusted timestamp.
RelativeSec(d) ==
    LET adj == d.adjusted_timestamp
    IN  [i \in DOMAIN adj |-> adj[i] - SeqMin(adj)]

\* Variant: the label of the last occurrence of the minimum.
IdxMinLast(s) ==
    CHOOSE i \in DOMAIN s :
        /\ \A j \in DOMAIN s : s[i] <= s[j]
        /\ \A j \in DOMAIN s : j > i => s[j] > s[i]

\* Series.idxmin(): the label of the first occurrence of the minimum.
IdxMin(s) ==
    CHOOSE i \in DOMAIN s :
        /\ \A j \in DOMAIN s : s[i] <= s[j]
        /\ \A j \in DOMAIN s : j < i => s[j] > s[i]

\* |relative_sec - target_time|, scaled by target_time's denominator.
AbsDiff(rel, t) == [i \in DOMAIN rel |-> Abs(rel[i] * t[2] - t[1])]

\* The table after line 142 stored the column relative_sec.
WithRelativeSec(d) ==
    [c \in DOMAIN d \cup {"relative_sec"} |->
        IF c = "relative_sec" THEN RelativeSec(d) ELSE d[c]]

\* Variant: an empty table yields a null row instead of an error.
get_accel_at_time_null(d, t) ==
    IF d.adjusted_timestamp = <<>>
    THEN [ok |-> TRUE, idx |-> 0]
    ELSE [ok |-> TRUE, idx |-> IdxMin(AbsDiff(RelativeSec(d), t))]

\* Lines 135-148.  On an empty table idxmin raises ValueError.
get_accel_at_time(d, t) ==
    IF d.adjusted_timestamp = <<>>
    THEN [ok |-> FALSE, error |-> "ValueError"]
    ELSE [ok |-> TRUE, idx |-> IdxMin(AbsDiff(RelativeSec(d), t))]

(***************************************************************************)
(* main.py: main() and create_annotated_video.                             *)
(***************************************************************************)
\* main(), line 286.
Synchronize ==
    /\ prog = "overlay" /\ pc = "init"
    /\ df' = synchronize_timestamps(df, manual_offset)
    /\ printed' = Append(printed, "offset applied")
    /\ pc' = "synced"
    /\ UNCHANGED <<prog, frame_count, fps_raw, start_offset, pos, reads, cap_state,
                   writer, frames, out, target_height, raised, manual_offset, frame_index,
                   target_time, row>>
    /\ UNCHANGED <<tableVars, props, animVars, pairVars>>

\* Lines 154-165: open the reader and the writer.
AnnotateOpen ==
    /\ prog = "overlay" /\ pc = "synced"
    /\ cap_state' = AllOpen(1)
    /\ writer' = [state |-> "open", fps |-> fps_raw[1], w |-> 0, h |-> 0]
    /\ frame_index' = 0
    /\ pc' = "loop"
    /\ UNCHANGED <<prog, frame_count, fps_raw, start_offset, pos, reads, frames,
                   out, target_height, printed, raised, df, manual_offset,
                   target_time, row>>
    /\ UNCHANGED <<tableVars, props, animVars, pairVars>>

\* Variant: the frame counter is not advanced.
NextFrameIndexStuck(i) == i

\* Line 218.

NextFrameIndex(i) == i + 1

\* Lines 167-223: one iteration of the frame loop; the iteration that breaks
\* goes on to release the reader and the writer and print the completion
\* message.
AnnotateStep ==
    /\ prog = "overlay" /\ pc = "loop"
    /\ reads' = ReadsAfterReads(1, pos)
    /\ pos' = PosAfterReads(1, pos)
    /\ IF ~LoopFramesOk(1, pos)
       THEN /\ cap_state' = AllReleased(1)
            /\ writer' = [writer EXCEPT !.state = "released"]
            /\ printed' = Append(printed, "saved")
            /\ pc' = "done"
            /\ UNCHANGED <<frames, out, raised, df, frame_index>>
       ELSE /\ frames' = <<[src |-> pos[1]]>>
            /\ UNCHANGED <<cap_state, writer, printed>>
            /\ IF fps_raw[1] = 0
               THEN /\ raised' = "ZeroDivisionError"
                    /\ pc' = "raised"
                    /\ UNCHANGED <<out, df, frame_index>>
               ELSE LET current_time_s == <<frame_index, fps_raw[1]>>
                        accel_row == get_accel_at_time(df, current_time_s)
                    IN  IF ~accel_row.ok
                        THEN /\ raised' = accel_row.error
                             /\ pc' = "raised"
                             /\ UNCHANGED <<out, df, frame_index>>
                        ELSE /\ df' = WithRelativeSec(df)
                             /\ out' = Append(out, [src |-> pos[1],
                                                    t |-> current_time_s,
                                                    row |-> accel_row.idx])
                             /\ frame_index' = NextFrameIndex(frame_index)
                             /\ UNCHANGED <<pc, raised>>
    /\ UNCHANGED <<prog, frame_count, fps_raw, start_offset, target_height,
                   manual_offset, target_time, row>>
    /\ UNCHANGED <<tableVars, props, animVars, pairVars>>

\* Non-decreasing sequences of timestamps, of length 0..MaxLen.
SortedSeries ==
    UNION {{s \in [1..n -> 0..MaxTs] : \A i \in 1..(n-1) : s[i] <= s[i+1]}
           : n \in 0..MaxLen}

InitOverlay ==
    /\ prog = "overlay"
    /\ pc = "init"
    /\ frame_count \in [1..1 -> 0..MaxFrames]
    /\ fps_raw \in [1..1 -> FpsValues]
    /\ start_offset = [k \in 1..1 |-> <<0, 1>>]
    /\ pos = [k \in 1..1 |-> 0]
    /\ reads = [k \in 1..1 |-> 0]
    /\ cap_state = [k \in 1..1 |-> "closed"]
    /\ writer = NoWriter
    /\ frames = <<>>
    /\ out = <<>>
    /\ target_height = 0
    /\ printed = <<>>
    /\ raised = "none"
    /\ \E s \in SortedSeries : df = [Timestamp |-> s]
    /\ manual_offset \in ManualOffsets
    /\ frame_index = 0
    /\ target_time = <<0, 1>>
    /\ row = "none"
    /\ TableIdle /\ props = <<>> /\ AnimIdle /\ PairIdle

NextOverlay == Synchronize \/ AnnotateOpen \/ AnnotateStep

SpecOverlay == InitOverlay /\ [][NextOverlay]_vars

(***************************************************************************)
(* A stand-alone nearest-sample query: every bounded sorted series and     *)
(* every query time in quarter seconds from -1/2 to MaxTs + 1.             *)
(***************************************************************************)
QueryTimes == {<<n, 4>> : n \in (-2)..(4 * MaxTs + 4)}

InitQuery ==
    /\ prog = "query"
    /\ pc = "init"
    /\ frame_count = <<0>>
    /\ fps_raw = <<0>>
    /\ start_offset = <<(<<0, 1>>)>>
    /\ pos = <<0>>
    /\ reads = <<0>>
    /\ cap_state = <<"closed">>
    /\ writer = NoWriter
    /\ frames = <<>>
    /\ out = <<>>
    /\ target_height = 0
    /\ printed = <<>>
    /\ raised = "none"
    /\ \E s \in SortedSeries : df = [Timestamp |-> s, adjusted_timestamp |-> s]
    /\ manual_offset = 0
    /\ frame_index = 0
    /\ target_time \in QueryTimes
    /\ row = "none"
    /\ TableIdle /\ props = <<>> /\ AnimIdle /\ PairIdle

Query ==
    /\ prog = "query" /\ pc = "init"
    /\ LET r == get_accel_at_time(df, target_time)
       IN  /\ row' = r
           /\ IF r.ok
              THEN df' = WithRelativeSec(df) /\ pc' = "done" /\ UNCHANGED raised
              ELSE raised' = r.error /\ pc' = "raised" /\ UNCHANGED df
    /\ UNCHANGED <<prog, frame_count, fps_raw, start_offset, pos, reads, cap_state,
                   writer, frames, out, target_height, printed, manual_offset, frame_index,
                   target_time>>
    /\ UNCHANGED <<tableVars, props, animVars, pairVars>>

NextQuery == Query

SpecQuery == InitQuery /\ [][NextQuery]_vars

(***************************************************************************)
(* Properties of the compositors (checked under SpecComposite).            *)
(***************************************************************************)
Terminal == {"done", "aborted", "raised"}

\* The frame rate a compositor uses for reader k.
EffectiveFps(k) ==
    IF prog = "three" THEN FpsOr30(fps_raw[k])
    ELSE IF prog = "two" THEN FpsPositiveOr30(fps_raw[k])
    ELSE fps_raw[k]

\* The whole number of frames reader k skips before its first read.
OffsetFrames(k) == SkipFrames(start_offset[k], EffectiveFps(k))

\* min over the readers of (source_frame_count - offset_frames), and zero
\* when some reader has no frame left after its offset.
ExpectedLength ==
    LET left == {frame_count[k] - OffsetFrames(k) : k \in 1..NStreams}
    IN  IF \E x \in left : x <= 0 THEN 0 ELSE SetMin(left)

\* C1: when a compositor run has ended, the number of composite frames it
\* wrote is the minimum over the readers of (frame count - offset frames),
\* and zero when some reader has no frame left after its offset.
C1_OutputLength == pc \in Terminal => Len(out) = ExpectedLength

\* C2: between iterations every reader has received the same number of read
\* calls, and every composite frame written consumed exactly one read of each
\* reader: while the loop runs the frames written equal the reads of each
\* reader, and a run that ended made exactly one more round of reads (the
\* round that ended it) than it wrote frames.
C2_LockStep ==
    pc # "init" =>
        \A k \in 1..NStreams :
            /\ reads[k] = reads[1]
            /\ (pc = "loop" => reads[k] = Len(out))
            /\ (pc = "loop" => pos[k] = OffsetFrames(k) + Len(out))
            /\ (pc \in Terminal => reads[k] = Len(out) + 1)

C2_Witness ==
    /\ prog = "three" /\ pc = "loop" /\ Len(out) = 2
    /\ reads = <<2, 2, 2>>

\* Some reader reports end-of-stream in the round of reads the next step makes.
EosThisRound ==
    \E k \in 1..NStreams :
        (IF pc = "init" THEN OffsetFrames(k) ELSE pos[k]) >= frame_count[k]

\* C3: a step in whose round of reads any reader reports end-of-stream writes
\* no composite frame and ends the run, and an ended run writes nothing more.
C3_StopAtFirstEos ==
    [][ /\ (EosThisRound => out' = out /\ pc' \in {"done", "aborted"})
        /\ (pc \in Terminal => out' = out) ]_vars

\* A run that ended on one reader's end-of-stream in a round where another
\* reader still delivered a frame, after at least one composite frame.
C3_Witness ==
    /\ pc = "done" /\ Len(out) >= 1
    /\ \E k \in 1..NStreams : pos[k] = OffsetFrames(k) + reads[k]
    /\ \E k \in 1..NStreams : pos[k] < OffsetFrames(k) + reads[k]

\* C5: if some stream has no first frame after its offset, the run aborts:
\* no composite frame is written, no writer was opened, every reader is
\* released, and the completion message is not printed.
NoFirstFrame == \E k \in 1..NStreams : OffsetFrames(k) >= frame_count[k]

C5_HardStop ==
    (pc # "init" /\ NoFirstFrame) =>
        /\ pc = "aborted"
        /\ out = <<>>
        /\ writer.state = "none"
        /\ \A i \in 1..Len(printed) : printed[i] # "saved"
        /\ \A k \in 1..NStreams : cap_state[k] = "released"

\* One stream has no first frame while another one has.
C5_Witness ==
    /\ pc = "aborted"
    /\ \E k \in 1..NStreams : OffsetFrames(k) >= frame_count[k]
    /\ \E k \in 1..NStreams : OffsetFrames(k) < frame_count[k]

\* C6: the j-th composite frame written (j from 0) holds, in reader order,
\* source frame offset_frames_k + j of every stream k.
C6_SourceFrames ==
    \A j \in 1..Len(out) :
        /\ Len(out[j].parts) = NStreams
        /\ \A k \in 1..NStreams : out[j].parts[k].src = OffsetFrames(k) + (j - 1)

\* Two frames written by a run with a non-zero offset on some stream, mixed
\* with a stream that has none.
C6_Witness ==
    /\ Len(out) >= 1
    /\ \E k \in 1..NStreams : OffsetFrames(k) > 0
    /\ \E k \in 1..NStreams : OffsetFrames(k) = 0

(***************************************************************************)
(* Release of readers and writers (checked under SpecOverlay).             *)
(***************************************************************************)
\* C4: when a run has ended, on whatever exit path, every reader and every
\* writer that was opened has been released.
C4_ReleasedOnExit ==
    pc \in Terminal =>
        /\ \A k \in DOMAIN cap_state : cap_state[k] # "open"
        /\ writer.state # "open"

(***************************************************************************)
(* Properties of the nearest-sample query (checked under SpecQuery).       *)
(***************************************************************************)
\* |ts[i] - t| scaled by t's denominator, for timestamps ts and a rational t.
Distance(ts, i, t) == Abs(ts[i] * t[2] - t[1])

\* Row r is nearest to t among the timestamps ts, lowest index on ties.
NearestLowest(ts, r, t) ==
    /\ r \in DOMAIN ts
    /\ \A i \in DOMAIN ts : Distance(ts, r, t) <= Distance(ts, i, t)
    /\ \A i \in DOMAIN ts : i < r => Distance(ts, i, t) > Distance(ts, r, t)

FromFirst(ts) == [i \in DOMAIN ts |-> ts[i] - ts[1]]

EmptySeries == df.Timestamp = <<>>

\* C8: a nearest-sample query on an empty series is an error, never a sample;
\* an overlay run over a video with at least one frame and an empty series
\* writes no frame, never completes, and when it ends it ends in an error:
\* the query's error whenever the frame time could be computed.
C8_EmptySeriesFails ==
    (EmptySeries /\ "adjusted_timestamp" \in DOMAIN df) =>
        /\ \A t \in QueryTimes \cup {<<frame_index, 1>>} :
                ~get_accel_at_time(df, t).ok
        /\ out = <<>>
        /\ (frame_count[1] >= 1 =>
                /\ pc # "done"
                /\ (pc \in Terminal => pc = "raised")
                /\ (pc \in Terminal /\ fps_raw[1] # 0 => raised = "ValueError"))

C8_Witness ==
    /\ EmptySeries /\ frame_count[1] >= 1
    /\ pc = "raised" /\ raised = "ValueError" /\ out = <<>>

\* The series after the clock offset has been added to every timestamp.
Shifted == [i \in DOMAIN df.Timestamp |-> df.Timestamp[i] + manual_offset]

\* C9: the sample annotated onto frame i is nearest to i / fps in the series
\* after the clock offset has been added to every timestamp.
C9_NearestAfterOffset ==
    \A j \in 1..Len(out) :
        /\ out[j].t = <<j - 1, fps_raw[1]>>
        /\ out[j].row \in DOMAIN Shifted
        /\ \A i \in DOMAIN Shifted :
              Distance(Shifted, out[j].row, out[j].t) <= Distance(Shifted, i, out[j].t)

\* C10: between iterations the frames written, the frames read and
\* frame_index are equal; the i-th frame written is the i-th frame decoded,
\* annotated with t = i / fps; the run ends at the first failed read.
C10_OncePerFrame ==
    pc \in {"loop", "done"} =>
        /\ Len(out) = frame_index
        /\ pos[1] = frame_index
        /\ \A j \in 1..Len(out) :
              out[j].src = j - 1 /\ out[j].t = <<j - 1, fps_raw[1]>>
        /\ (pc = "loop" => reads[1] = pos[1])
        /\ (pc = "done" => reads[1] = pos[1] + 1 /\ pos[1] = frame_count[1])

C10_Witness ==
    /\ pc = "done" /\ Len(out) = 2 /\ frame_index = 2

(***************************************************************************)
(* main.py: synchronize_timestamps as a call on a DataFrame object.  A     *)
(* Python name holds a reference to an object; heap maps an object id to   *)
(* the table stored there, and df keeps the table as it was loaded.  The   *)
(* function is called with an offset x and then, on what it returned, with *)
(* the offset -x.                                                          *)
(***************************************************************************)
\* Variant: the function works on a copy of its argument and returns the copy.
SyncCallCopy(h, ref, offset) ==
    [heap |-> Append(h, synchronize_timestamps(h[ref], offset)),
     ret  |-> Len(h) + 1]

\* Lines 125 and 130: the column is stored into the object passed in, and
\* that same object is returned.
SyncCall(h, ref, offset) ==
    [heap |-> [h EXCEPT ![ref] = synchronize_timestamps(h[ref], offset)],
     ret  |-> ref]

\* synchronize_timestamps(s, video_info, x)
ApplyOffset ==
    /\ prog = "sync" /\ pc = "init"
    /\ LET c == SyncCall(heap, 1, manual_offset)
       IN  heap' = c.heap /\ ret' = Append(ret, c.ret)
    /\ printed' = Append(printed, "offset applied")
    /\ pc' = "synced"
    /\ UNCHANGED <<prog, frame_count, fps_raw, start_offset, pos, reads, cap_state,
                   writer, frames, out, target_height, raised, df, manual_offset,
                   frame_index, target_time, row>>
    /\ UNCHANGED <<props, animVars, pairVars>>

\* synchronize_timestamps(<what the first call returned>, video_info, -x)
ApplyInverse ==
    /\ prog = "sync" /\ pc = "synced"
    /\ LET c == SyncCall(heap, ret[1], -manual_offset)
       IN  heap' = c.heap /\ ret' = Append(ret, c.ret)
    /\ printed' = Append(printed, "offset applied")
    /\ pc' = "done"
    /\ UNCHANGED <<prog, frame_count, fps_raw, start_offset, pos, reads, cap_state,
                   writer, frames, out, target_height, raised, df, manual_offset,
                   frame_index, target_time, row>>
    /\ UNCHANGED <<props, animVars, pairVars>>

\* Every bounded sorted series, with a value column X, and every clock offset.
InitSync ==
    /\ prog = "sync"
    /\ pc = "init"
    /\ frame_count = <<0>>
    /\ fps_raw = <<0>>
    /\ start_offset = <<(<<0, 1>>)>>
    /\ pos = <<0>>
    /\ reads = <<0>>
    /\ cap_state = <<"closed">>
    /\ writer = NoWriter
    /\ frames = <<>>
    /\ out = <<>>
    /\ target_height = 0
    /\ printed = <<>>
    /\ raised = "none"
    /\ \E s \in SortedSeries : df = [Timestamp |-> s, X |-> [i \in DOMAIN s |-> 10 * i]]
    /\ manual_offset \in ManualOffsets
    /\ frame_index = 0
    /\ target_time = <<0, 1>>
    /\ row = "none"
    /\ heap = <<df>> /\ ret = <<>>
    /\ props = <<>> /\ AnimIdle /\ PairIdle

NextSync == ApplyOffset \/ ApplyInverse

SpecSync == InitSync /\ [][NextSync]_vars

FPS == 30

RECURSIVE InsertSorted(_, _)
InsertSorted(x, s) ==
    IF s = <<>> THEN <<x>>
    ELSE IF x < Head(s) THEN <<x>> \o s
    ELSE <<Head(s)>> \o InsertSorted(x, Tail(s))

\* df.sort_values(by=TIME_COL)
RECURSIVE SortValues(_)
SortValues(s) ==
    IF s = <<>> THEN <<>> ELSE InsertSorted(Head(s), SortValues(Tail(s)))

\* The column time_sec of a sorted, non-empty column ts: seconds since the
\* first row for datetimes, the column itself for numbers.
TimeSec(ts, dt) == IF dt THEN [i \in DOMAIN ts |-> ts[i] - ts[1]] ELSE ts

\* total_time in seconds, as a rational: the span of time_data, or
\* len(time_data) when the span is not positive.  Only the single-axis
\* script tests len(time_data) > 1 first.
TotalTime(p, td) ==
    LET span == IF p = "sensor" \/ Len(td) > 1 THEN td[Len(td)] - td[1] ELSE 0
    IN  IF span <= 0 THEN <<Len(td), 1>> ELSE <<span, TicksPerSecond>>

\* Variant: without the fallback to len(time_data).
NumFramesNoFallback(td, total) ==
    IF total[1] > 0 THEN IntTrunc(FPS * total[1], total[2]) ELSE Len(td)

\* num_frames = int(FPS * total_time) if total_time > 0 else len(time_data),
\* replaced by len(time_data) when it is below 1.
NumFrames(td, total) ==
    LET n == IF total[1] > 0 THEN IntTrunc(FPS * total[1], total[2]) ELSE Len(td)
    IN  IF n < 1 THEN Len(td) ELSE n

\* time_data[0] + (time_data[-1] - time_data[0]) * (frame_idx / (num_frames - 1))
Interpolate(td, n, i) ==
    <<td[1] * (n - 1) + (td[Len(td)] - td[1]) * i, n - 1>>

\* update of animate_sensor_data.py: the division is not guarded.
update_sensor(td, n, i) ==
    IF n - 1 = 0 THEN [ok |-> FALSE, error |-> "ZeroDivisionError"]
    ELSE [ok |-> TRUE, t |-> Interpolate(td, n, i)]

\* update of animate_single_axis_data.py.
update_single_axis(td, n, i) ==
    IF n > 1 THEN [ok |-> TRUE, t |-> Interpolate(td, n, i)]
    ELSE [ok |-> TRUE, t |-> <<td[1], 1>>]

\* The module-level code from the sort to num_frames.  An empty table makes
\* the script fail before any frame: time_data[-1] or .iloc[0] raise
\* IndexError, np.min of an empty array raises ValueError.
Prepare ==
    /\ prog \in {"sensor", "single_axis"} /\ pc = "init"
    /\ IF df.Timestamp = <<>>
       THEN /\ raised' = (IF prog = "single_axis" /\ ~is_datetime
                          THEN "ValueError" ELSE "IndexError")
            /\ pc' = "raised"
            /\ UNCHANGED <<time_data, num_frames, printed>>
       ELSE LET td == TimeSec(SortValues(df.Timestamp), is_datetime)
            IN  /\ time_data' = td
                /\ num_frames' = NumFrames(td, TotalTime(prog, td))
                /\ printed' = Append(printed, "total time")
                /\ pc' = "loop"
                /\ UNCHANGED raised
    /\ UNCHANGED <<prog, frame_count, fps_raw, start_offset, pos, reads, cap_state,
                   writer, frames, out, target_height, df, manual_offset,
                   frame_index, target_time, row>>
    /\ UNCHANGED <<tableVars, props, is_datetime, shown, pairVars>>

\* One call update(frame_idx) made by anim.save; an exception in it is caught
\* by the except clause around anim.save, which prints a hint.
Update ==
    /\ prog \in {"sensor", "single_axis"} /\ pc = "loop"
    /\ Len(shown) < num_frames
    /\ LET frame_idx == Len(shown)
           r == IF prog = "sensor"
                THEN update_sensor(time_data, num_frames, frame_idx)
                ELSE update_single_axis(time_data, num_frames, frame_idx)
       IN  IF r.ok
           THEN /\ shown' = Append(shown, r.t)
                /\ UNCHANGED <<pc, raised, printed>>
           ELSE /\ raised' = r.error
                /\ pc' = "raised"
                /\ printed' = Append(printed, "not saved")
                /\ UNCHANGED shown
    /\ UNCHANGED <<prog, frame_count, fps_raw, start_offset, pos, reads, cap_state,
                   writer, frames, out, target_height, df, manual_offset,
                   frame_index, target_time, row>>
    /\ UNCHANGED <<tableVars, props, is_datetime, time_data, num_frames, pairVars>>

\* anim.save returns after the last frame.
Saved ==
    /\ prog \in {"sensor", "single_axis"} /\ pc = "loop"
    /\ Len(shown) = num_frames
    /\ printed' = Append(printed, "saved")
    /\ pc' = "done"
    /\ UNCHANGED <<prog, frame_count, fps_raw, start_offset, pos, reads, cap_state,
                   writer, frames, out, target_height, raised, df, manual_offset,
                   frame_index, target_time, row>>
    /\ UNCHANGED <<tableVars, props, animVars, pairVars>>

\* Every series of 0..MaxLen timestamps, in file order (not sorted).
AnySeries == UNION {[1..n -> 0..MaxTick] : n \in 0..MaxLen}

InitAnimation ==
    /\ prog \in {"sensor", "single_axis"}
    /\ pc = "init"
    /\ frame_count = <<0>>
    /\ fps_raw = <<0>>
    /\ start_offset = <<(<<0, 1>>)>>
    /\ pos = <<0>>
    /\ reads = <<0>>
    /\ cap_state = <<"closed">>
    /\ writer = NoWriter
    /\ frames = <<>>
    /\ out = <<>>
    /\ target_height = 0
    /\ printed = <<>>
    /\ raised = "none"
    /\ \E s \in AnySeries : df = [Timestamp |-> s]
    /\ manual_offset = 0
    /\ frame_index = 0
    /\ target_time = <<0, 1>>
    /\ row = "none"
    /\ TableIdle /\ props = <<>> /\ PairIdle
    /\ is_datetime \in BOOLEAN
    /\ time_data = <<>> /\ num_frames = 0 /\ shown = <<>>

NextAnimation == Prepare \/ Update \/ Saved

SpecAnimation == InitAnimation /\ [][NextAnimation]_vars

(***************************************************************************)
(* Properties of the animation scripts (checked under SpecAnimation).      *)
(***************************************************************************)
\* a <= b and a = b for rationals with positive denominators.
RatLeq(a, b) == a[1] * b[2] <= b[1] * a[2]
RatEq(a, b) == a[1] * b[2] = b[1] * a[2]

\* The script got past the module-level code: time_data and num_frames exist.
Prepared == pc \in {"loop", "done"} \/ (pc = "raised" /\ time_data # <<>>)

\* C13: every frame index 0 <= i < num_frames gets a time; the times are
\* non-decreasing in the frame index, the time of frame 0 is the start time,
\* and the time of frame num_frames - 1 is the end time when num_frames > 1.
C13_RenderClock ==
    Prepared =>
        /\ pc # "raised"
        /\ (Len(shown) >= 1 => RatEq(shown[1], <<time_data[1], 1>>))
        /\ \A i \in 1..(Len(shown) - 1) : RatLeq(shown[i], shown[i + 1])
        /\ (pc = "done" => Len(shown) = num_frames)
        /\ (Len(shown) = num_frames /\ num_frames > 1 =>
                RatEq(shown[num_frames], <<time_data[Len(time_data)], 1>>))

\* C14: when num_frames is 1, update(0) gives the start time and no division
\* by zero happens, in both animation scripts.
C14_SingleFrame ==
    (Prepared /\ num_frames = 1) =>
        /\ raised # "ZeroDivisionError"
        /\ (pc = "done" => shown = <<(<<time_data[1], 1>>)>>)

\* C19: for every non-empty series, after the sort, num_frames >= 1 and the
\* end time is not before the start time.
C19_FrameClockValid ==
    (pc # "init" /\ df.Timestamp # <<>>) =>
        /\ time_data # <<>>
        /\ num_frames >= 1
        /\ time_data[Len(time_data)] >= time_data[1]

\* A series that was not sorted in the file, whose positive span is too short
\* for one frame, so that num_frames falls back to the number of samples.
C19_Witness ==
    /\ pc = "loop"
    /\ df.Timestamp[1] > df.Timestamp[Len(df.Timestamp)]
    /\ time_data[Len(time_data)] > time_data[1]
    /\ FPS * (time_data[Len(time_data)] - time_data[1]) < TicksPerSecond
    /\ num_frames = Len(time_data)

(***************************************************************************)
(* Properties of the seek at the start of a compositor run (checked under  *)
(* SpecComposite).                                                         *)
(***************************************************************************)
\* The integer nearest to the non-negative rational n/d, the even one on a tie.
RoundNearest(n, d) ==
    LET q == n \div d
        r == n % d
    IN  IF 2 * r < d THEN q
        ELSE IF 2 * r > d THEN q + 1
        ELSE IF q % 2 = 0 THEN q ELSE q + 1

\* C15: the number of frames stream k skips is round(start_offset_k * fps_k),
\* the nearest whole number of frames, computed from that stream's own frame
\* rate and offset: the first composite frame written holds that source frame
\* of every stream.
C15_NearestFrame ==
    Len(out) >= 1 =>
        \A k \in 1..NStreams :
            out[1].parts[k].src =
                RoundNearest(start_offset[k][1] * EffectiveFps(k), start_offset[k][2])

(***************************************************************************)
(* Height normalisation on its own: resize_to_height of the three-stream   *)
(* script and the inline resize of the two-stream script, applied to one   *)
(* frame and one target height.  The frame is frames[1], the result out[1].*)
(***************************************************************************)
\* resize_to_height(frame, target_height)
ResizeThree ==
    /\ prog = "resize_three" /\ pc = "init"
    /\ LET r == resize_to_height(frames[1], target_height)
       IN  IF ResizeFails(r)
           THEN raised' = "cv2.error" /\ pc' = "raised" /\ UNCHANGED out
           ELSE out' = <<r>> /\ pc' = "done" /\ UNCHANGED raised
    /\ UNCHANGED <<prog, frame_count, fps_raw, start_offset, pos, reads, cap_state,
                   writer, frames, target_height, printed, df, manual_offset,
                   frame_index, target_time, row>>
    /\ UNCHANGED <<tableVars, props, animVars, pairVars>>

\* The inline resize of frame2 against a frame1 of height target_height.
ResizeTwo ==
    /\ prog = "resize_two" /\ pc = "init"
    /\ LET frame1 == [src |-> 0, w |-> 1, h |-> target_height]
           r == MatchHeight(frame1, frames[1])
       IN  IF ResizeFails(r)
           THEN raised' = "cv2.error" /\ pc' = "raised" /\ UNCHANGED out
           ELSE out' = <<r>> /\ pc' = "done" /\ UNCHANGED raised
    /\ UNCHANGED <<prog, frame_count, fps_raw, start_offset, pos, reads, cap_state,
                   writer, frames, target_height, printed, df, manual_offset,
                   frame_index, target_time, row>>
    /\ UNCHANGED <<tableVars, props, animVars, pairVars>>

\* Every frame of 1..MaxDim by 1..MaxDim pixels against every target height
\* 1..MaxDim, and a 200x50 frame against the target height 100.
InitResize ==
    /\ prog \in {"resize_three", "resize_two"}
    /\ pc = "init"
    /\ frame_count = <<0>>
    /\ fps_raw = <<0>>
    /\ start_offset = <<(<<0, 1>>)>>
    /\ pos = <<0>>
    /\ reads = <<0>>
    /\ cap_state = <<"closed">>
    /\ writer = NoWriter
    /\ \E w \in 1..MaxDim, h \in 1..MaxDim, th \in 1..MaxDim, big \in BOOLEAN :
        /\ frames = <<[src |-> 0,
                       w |-> IF big THEN 50 * w ELSE w,
                       h |-> IF big THEN 50 * h ELSE h]>>
        /\ target_height = (IF big THEN 50 * th ELSE th)
    /\ out = <<>>
    /\ printed = <<>>
    /\ raised = "none"
    /\ df = NoTable
    /\ manual_offset = 0
    /\ frame_index = 0
    /\ target_time = <<0, 1>>
    /\ row = "none"
    /\ TableIdle /\ props = <<>> /\ AnimIdle /\ PairIdle

NextResize == ResizeThree \/ ResizeTwo

SpecResize == InitResize /\ [][NextResize]_vars

(***************************************************************************)
(* Properties of height normalisation (checked under SpecResize).          *)
(***************************************************************************)
\* C17: a frame whose height equals the target height is returned unchanged;
\* any other frame comes back with the target height and the width
\* round(width * target_height / height), for every positive width, height
\* and target height; a 200x50 frame at target height 100 becomes 400x100.
C17_RoundedWidth ==
    pc # "init" =>
        LET f == frames[1]
        IN  /\ pc = "done"
            /\ (f.h = target_height => out[1] = f)
            /\ (f.h # target_height =>
                    /\ out[1].h = target_height
                    /\ out[1].w = RoundNearest(f.w * target_height, f.h)
                    /\ out[1].src = f.src)
            /\ (f.w = 200 /\ f.h = 50 /\ target_height = 100 =>
                    out[1].w = 400 /\ out[1].h = 100)

(***************************************************************************)
(* main.py: create_side_by_side_video.  The writer is opened from the      *)
(* properties the two readers report, before any frame is read.            *)
(***************************************************************************)
\* Lines 234-252: open the readers, take the frame rate and the output size
\* from their properties, open the writer.
MainSideStart ==
    /\ prog = "main_two" /\ pc = "init"
    /\ cap_state' = AllOpen(2)
    /\ LET fps == SetMin({fps_raw[1], fps_raw[2]})
           width1 == props[1][1]
           height1 == props[1][2]
           width2 == props[2][1]
           height2 == props[2][2]
       IN  writer' = [state |-> "open", fps |-> fps,
                      w |-> width1 + width2, h |-> Max(height1, height2)]
    /\ pc' = "loop"
    /\ UNCHANGED <<prog, frame_count, fps_raw, start_offset, pos, reads, frames,
                   out, target_height, printed, raised, df, manual_offset,
                   frame_index, target_time, row>>
    /\ UNCHANGED <<tableVars, props, animVars, pairVars>>

\* Lines 254-273: one iteration of the loop; the iteration that breaks goes
\* on to release everything and print the completion message.
MainSideStep ==
    /\ prog = "main_two" /\ pc = "loop"
    /\ reads' = ReadsAfterReads(2, pos)
    /\ pos' = PosAfterReads(2, pos)
    /\ IF ~LoopFramesOk(2, pos)
       THEN /\ cap_state' = AllReleased(2)
            /\ writer' = [writer EXCEPT !.state = "released"]
            /\ printed' = Append(printed, "saved")
            /\ pc' = "done"
            /\ UNCHANGED <<frames, out, raised>>
       ELSE \E d \in [1..2 -> FrameDims] :
            LET width1 == props[1][1]
                height1 == props[1][2]
                height2 == props[2][2]
                frame1 == ReadFrame(pos, 1, d[1])
                frame2 == IF height1 # height2
                          THEN Cv2Resize(ReadFrame(pos, 2, d[2]), width1, height1)
                          ELSE ReadFrame(pos, 2, d[2])
                resized == <<frame1, frame2>>
            IN  /\ frames' = [k \in 1..2 |-> ReadFrame(pos, k, d[k])]
                /\ UNCHANGED <<cap_state, writer, printed>>
                /\ IF ResizeFails(frame2) \/ HconcatFails(resized)
                   THEN /\ raised' = "cv2.error"
                        /\ pc' = "raised"
                        /\ UNCHANGED out
                   ELSE /\ out' = Append(out, Hconcat(resized))
                        /\ UNCHANGED <<pc, raised>>
    /\ UNCHANGED <<prog, frame_count, fps_raw, start_offset, target_height, df,
                   manual_offset, frame_index, target_time, row>>
    /\ UNCHANGED <<tableVars, props, animVars, pairVars>>

(***************************************************************************)
(* The three side-by-side scripts over every combination of reported frame *)
(* rates, negative ones included, on streams of at most one frame and      *)
(* without start offsets.                                                  *)
(***************************************************************************)
ReportedFps == {-1, 0, 1, 2}

InitFps ==
    /\ prog \in {"three", "two", "main_two"}
    /\ pc = "init"
    /\ \E n \in {2, 3} :
        /\ n = NStreams
        /\ frame_count \in [1..n -> 0..1]
        /\ fps_raw \in [1..n -> ReportedFps]
        /\ start_offset = [k \in 1..n |-> <<0, 1>>]
        /\ pos = [k \in 1..n |-> 0]
        /\ reads = [k \in 1..n |-> 0]
        /\ cap_state = [k \in 1..n |-> "closed"]
        /\ IF prog = "main_two" THEN props \in [1..n -> FrameDims] ELSE props = <<>>
    /\ writer = NoWriter
    /\ frames = <<>>
    /\ out = <<>>
    /\ target_height = 0
    /\ printed = <<>>
    /\ raised = "none"
    /\ df = NoTable
    /\ manual_offset = 0
    /\ frame_index = 0
    /\ target_time = <<0, 1>>
    /\ row = "none"
    /\ TableIdle /\ AnimIdle /\ PairIdle

NextFps ==
    ThreeStart \/ ThreeStep \/ TwoStart \/ TwoStep \/ MainSideStart \/ MainSideStep

SpecFps == InitFps /\ [][NextFps]_vars

C18_FixedDimensions ==
    Len(out) >= 1 =>
        /\ writer.w = SeqSum([k \in 1..NStreams |-> out[1].parts[k].w])
        /\ writer.h = out[1].parts[1].h
        /\ \A j \in 1..Len(out) : out[j].w = writer.w /\ out[j].h = writer.h

(***************************************************************************)
(* The three-stream and the two-stream script run side by side on the same *)
(* streams 1 and 2 with the same offsets.  Stream 3 has no offset, as many *)
(* frames as a stream can have, the frame rate of stream 1, and frames of  *)
(* 2x2 pixels, which every resize accepts.  pc, out and target_height      *)
(* belong to the three-stream run, pc2 and out2 to the two-stream run.     *)
(* Both runs decode the same files: a frame has the same dimensions in     *)
(* both.  Reported rates are 0 or more, for which both scripts use the     *)
(* same rate, so both runs stand at the same positions while both go on;   *)
(* pos[k] is the position of reader k in the runs that still go on.  Only  *)
(* what the runs write is recorded.                                        *)
(***************************************************************************)
\* combine_three_videos.py lines 48-61 and 72-76: the composite of one round
\* of frames at reference height th, or the failure of resize or hconcat.
ThreeCompose(fr, th) ==
    LET frame2 == resize_to_height(fr[2], th)
        frame3 == resize_to_height(fr[3], th)
        resized == <<fr[1], frame2, frame3>>
    IN  [ok |-> ~(ResizeFails(frame2) \/ ResizeFails(frame3) \/ HconcatFails(resized)),
         frame |-> Hconcat(resized)]

\* create_side_by_side_video_offset.py lines 57-75 and 84-96.
TwoCompose(fr) ==
    LET frame2 == MatchHeight(fr[1], fr[2])
        resized == <<fr[1], frame2>>
    IN  [ok |-> ~(ResizeFails(frame2) \/ HconcatFails(resized)),
         frame |-> Hconcat(resized)]

PairDims == {d \in [1..3 -> FrameDims] : d[3] = <<2, 2>>}

\* Both scripts up to their first written frame.
PairStart ==
    /\ prog = "pair" /\ pc = "init" /\ pc2 = "init"
    /\ LET p0 == [k \in 1..3 |-> SkipFrames(start_offset[k], FpsOr30(fps_raw[k]))]
           q0 == [k \in 1..2 |->
                    SkipFrames(start_offset[k], FpsPositiveOr30(fps_raw[k]))]
       IN  /\ \A k \in 1..2 : p0[k] = q0[k]
           /\ reads' = ReadsAfterReads(3, p0)
           /\ pos' = PosAfterReads(3, p0)
           /\ \E d \in PairDims :
                LET fr == [k \in 1..3 |-> ReadFrame(p0, k, d[k])]
                    c3 == ThreeCompose(fr, fr[1].h)
                    c2 == TwoCompose(fr)
                IN  /\ frames' = (IF FirstFramesOk(2, q0) THEN fr ELSE frames)
                    /\ IF ~FirstFramesOk(3, p0)
                       THEN pc' = "aborted" /\ UNCHANGED <<out, target_height>>
                       ELSE /\ target_height' = fr[1].h
                            /\ IF c3.ok
                               THEN out' = Append(out, c3.frame) /\ pc' = "loop"
                               ELSE pc' = "raised" /\ UNCHANGED out
                    /\ IF ~FirstFramesOk(2, q0)
                       THEN pc2' = "aborted" /\ UNCHANGED out2
                       ELSE IF c2.ok
                            THEN out2' = Append(out2, c2.frame) /\ pc2' = "loop"
                            ELSE pc2' = "raised" /\ UNCHANGED out2
    /\ UNCHANGED <<prog, frame_count, fps_raw, start_offset, cap_state, writer,
                   printed, raised, df, manual_offset, frame_index, target_time, row>>
    /\ UNCHANGED <<tableVars, props, animVars>>

\* One iteration of the main loop of every run that still goes on.
PairStep ==
    /\ prog = "pair" /\ (pc = "loop" \/ pc2 = "loop")
    /\ reads' = ReadsAfterReads(3, pos)
    /\ pos' = [k \in 1..3 |->
                 IF k = 3 /\ pc # "loop" THEN pos[k] ELSE PosAfterReads(3, pos)[k]]
    /\ \E d \in PairDims :
         LET fr == [k \in 1..3 |-> ReadFrame(pos, k, d[k])]
             c3 == ThreeCompose(fr, target_height)
             c2 == TwoCompose(fr)
         IN  /\ frames' = (IF LoopFramesOk(2, pos) THEN fr ELSE frames)
             /\ IF pc # "loop" THEN UNCHANGED <<pc, out>>
                ELSE IF ~LoopFramesOk(3, pos) THEN pc' = "done" /\ UNCHANGED out
                ELSE IF c3.ok THEN out' = Append(out, c3.frame) /\ UNCHANGED pc
                ELSE pc' = "raised" /\ UNCHANGED out
             /\ IF pc2 # "loop" THEN UNCHANGED <<pc2, out2>>
                ELSE IF ~LoopFramesOk(2, pos) THEN pc2' = "done" /\ UNCHANGED out2
                ELSE IF c2.ok THEN out2' = Append(out2, c2.frame) /\ UNCHANGED pc2
                ELSE pc2' = "raised" /\ UNCHANGED out2
    /\ UNCHANGED <<prog, frame_count, fps_raw, start_offset, cap_state, writer,
                   target_height, printed, raised, df, manual_offset, frame_index,
                   target_time, row>>
    /\ UNCHANGED <<tableVars, props, animVars>>

InitPair ==
    /\ prog = "pair"
    /\ pc = "init" /\ pc2 = "init"
    /\ frame_count \in [1..3 -> 0..MaxFrames]
    /\ frame_count[3] = MaxFrames
    /\ fps_raw \in [1..3 -> FpsValues]
    /\ fps_raw[3] = fps_raw[1]
    /\ start_offset \in [1..3 -> Offsets]
    /\ start_offset[3] = <<0, 1>>
    /\ pos = [k \in 1..3 |-> 0]
    /\ reads = [k \in 1..3 |-> 0]
    /\ cap_state = [k \in 1..3 |-> "closed"]
    /\ writer = NoWriter
    /\ frames = <<>>
    /\ out = <<>> /\ out2 = <<>>
    /\ target_height = 0
    /\ printed = <<>>
    /\ raised = "none"
    /\ df = NoTable
    /\ manual_offset = 0
    /\ frame_index = 0
    /\ target_time = <<0, 1>>
    /\ row = "none"
    /\ TableIdle /\ props = <<>> /\ AnimIdle

NextPair == PairStart \/ PairStep

SpecPair == InitPair /\ [][NextPair]_vars

(***************************************************************************)
(* Properties of the paired run (checked under SpecPair).                  *)
(***************************************************************************)
\* C20: on the same first two streams and offsets the two scripts write the
\* same number of frames and, at every output index, the same source frames
\* of streams 1 and 2 normalised to the same width and height, also when the
\* height of stream 1's frames changes during the run.
C20_NaryRefinement ==
    /\ \A j \in 1..Len(out) :
          j <= Len(out2) =>
              /\ out[j].parts[1] = out2[j].parts[1]
              /\ out[j].parts[2] = out2[j].parts[2]
    /\ (pc \in Terminal /\ pc2 \in Terminal => Len(out) = Len(out2))

(***************************************************************************)
(* Properties of main.py's create_side_by_side_video (checked under        *)
(* SpecFps).                                                               *)
(***************************************************************************)
\* The frames of the latest round of reads have the width and height their
\* readers report.
FramesAsReported ==
    /\ prog = "main_two" /\ frames # <<>>
    /\ \A k \in 1..2 : frames[k].w = props[k][1] /\ frames[k].h = props[k][2]

\* C21: in main.py's create_side_by_side_video, for every pair of input
\* resolutions, the two frames concatenated have equal height (hconcat does
\* not fail), and every combined frame written has the width
\* width1 + width2 and the height max(height1, height2) the writer was
\* opened with.
C21_CombinedSize ==
    FramesAsReported =>
        /\ pc # "raised"
        /\ (Len(out) >= 1 /\ out[Len(out)].parts[1].src = frames[1].src =>
                LET combined == out[Len(out)]
                IN  /\ combined.parts[1].h = combined.parts[2].h
                    /\ combined.w = props[1][1] + props[2][1]
                    /\ combined.h = Max(props[1][2], props[2][2])
                    /\ combined.w = writer.w
                    /\ combined.h = writer.h)

====
